---- MODULE Spec2Model ----
(***************************************************************************)
(* Model of crates/bevy_core/src/transform/world_builder.rs: the two       *)
(* hierarchy builders, WorldBuilder (immediate, over a live World) and     *)
(* CommandBufferBuilder (deferred, over a CommandBuffer).                  *)
(*                                                                         *)
(* One caller program (a chain of builder calls with nested with_children  *)
(* closures) is run on both builders in lock step.  A builder that has     *)
(* panicked stays where it stopped while the other one goes on.            *)
(***************************************************************************)
EXTENDS Integers, Sequences, FiniteSets, TLC

\* ---------------------------------------------------------------- bounds
\* number of builder calls in one call chain (returns from closures are free)
MaxCalls == 5
\* nesting depth of with_children closures in the caller's program
MaxDepth == 3
\* entities that exist in the world before the chain starts (ids 1..NumPre)
NumPre == 1
\* largest batch handed to entities(...)
MaxBatch == 2

\* ------------------------------------------------------------ vocabulary
\* Option<Entity>::None; entities of a world are 1, 2, ...; the entities a
\* command buffer hands out before it is applied are -1, -2, ...
None == 0

\* a component is <<type, value>>
Unit == "unit"
CompA == <<"A", Unit>>
CompB == <<"B", Unit>>
UserComponents == {CompA, CompB}
\* the bundles a caller passes to entity_with
Bundles == {{CompA, CompB}}
\* the components of each entity of a batch passed to entities
BatchComponents == {CompA}

Parent(e) == <<"Parent", e>>
LocalTransformIdentity == <<"LocalTransform", "identity">>

OK == "ok"
\* Option::unwrap on None
PanicNoCurrentEntity == "panic: no current entity"
\* line 155: expect("Cannot add children without a parent. ...")
PanicChildrenWithoutParent == "panic: cannot add children without a parent"

VARIABLES
    wb,       \* the WorldBuilder: world, current_entity, parent_entity
    cb,       \* the CommandBufferBuilder: command_buffer, current_entity,
              \* parent_entities, parent_entity
    frames,   \* the with_children closures the caller is inside of
    calls,    \* number of builder calls made so far
    last,     \* the call (or return) that produced this state
    trace,    \* the names of the calls made so far, returns included
    args,     \* args[i] is the argument of the call trace[i] (None: no argument)
    w_bulk,   \* the entities WorldBuilder::entities has inserted
    c_bulk,   \* the entities CommandBufferBuilder::entities has inserted
    w_root,   \* <<e, P, d>>: WorldBuilder created e by entity()/entity_with()
              \* inside d open closures, the innermost of which belongs to
              \* the with_children that was called with current P
    c_root    \* the same for the CommandBufferBuilder

vars ==
    <<wb, cb, frames, calls, last, trace, args, w_bulk, c_bulk, w_root, c_root>>

\* ------------------------------------------------------- the entity store
\* World: a sequence of component sets, world[e] for entity e.
\* World::insert of n entities that each get the components comps.
WorldInsert(world, comps, n) ==
    world \o [i \in 1..n |-> comps]

\* World::add_component; the builders drop its Result (let _ = ...).
WorldAddComponent(world, e, comp) ==
    IF e \in 1..Len(world)
    THEN [world EXCEPT ![e] = {c \in @ : c[1] # comp[1]} \cup {comp}]
    ELSE world

\* CommandBuffer: the recorded log and the number of entities handed out.
\* CommandBuffer::insert of n entities; their ids are -(allocated+1), ...
CmdInsert(buf, comps, n) ==
    [log |-> Append(buf.log,
                    [op |-> "insert",
                     ids |-> [i \in 1..n |-> 0 - (buf.allocated + i)],
                     comps |-> comps]),
     allocated |-> buf.allocated + n]

\* CommandBuffer::add_component
CmdAddComponent(buf, e, comp) ==
    [buf EXCEPT !.log = Append(@, [op |-> "add", e |-> e, comp |-> comp])]

\* ----------------------------------------------------------- WorldBuilder
\* World::build
WorldBuilderSource_build(world) ==
    [world |-> world, current_entity |-> None, parent_entity |-> None,
     status |-> OK, ops |-> 0]

\* the policy reading the parent with Option::take, which empties the slot
M_WorldBuilder_add_parent_takes(b) ==
    IF b.current_entity = None
    THEN [b EXCEPT !.status = PanicNoCurrentEntity]
    ELSE IF b.parent_entity # None
    THEN [b EXCEPT
            !.world = WorldAddComponent(
                        WorldAddComponent(@, b.current_entity,
                                          Parent(b.parent_entity)),
                        b.current_entity, LocalTransformIdentity),
            !.ops = @ + 2,
            !.parent_entity = None]
    ELSE b

WorldBuilder_add_parent_to_current_entity(b) ==
    IF b.current_entity = None
    THEN [b EXCEPT !.status = PanicNoCurrentEntity]
    ELSE IF b.parent_entity # None
    THEN [b EXCEPT
            !.world = WorldAddComponent(
                        WorldAddComponent(@, b.current_entity,
                                          Parent(b.parent_entity)),
                        b.current_entity, LocalTransformIdentity),
            !.ops = @ + 2]
    ELSE b

WorldBuilder_entity(b) ==
    WorldBuilder_add_parent_to_current_entity(
        [b EXCEPT !.world = WorldInsert(@, {}, 1),
                  !.ops = @ + 1,
                  !.current_entity = Len(b.world) + 1])

WorldBuilder_set_entity(b, entity) ==
    [b EXCEPT !.current_entity = entity]

\* with() that skips the call when there is no current entity
M_WorldBuilder_with_silent(b, component) ==
    IF b.current_entity = None
    THEN b
    ELSE [b EXCEPT !.world = WorldAddComponent(@, b.current_entity, component),
                   !.ops = @ + 1]

WorldBuilder_with(b, component) ==
    IF b.current_entity = None
    THEN [b EXCEPT !.status = PanicNoCurrentEntity]
    ELSE [b EXCEPT !.world = WorldAddComponent(@, b.current_entity, component),
                   !.ops = @ + 1]

\* entities() that treats the last inserted entity as entity_with does
M_WorldBuilder_entities_linked(b, components, n) ==
    WorldBuilder_add_parent_to_current_entity(
        [b EXCEPT !.world = WorldInsert(@, components, n),
                  !.ops = @ + 1,
                  !.current_entity = Len(b.world) + n])

WorldBuilder_entities(b, components, n) ==
    [b EXCEPT !.world = WorldInsert(@, components, n), !.ops = @ + 1]

\* ComponentSet::insert: one entity with the whole bundle, returns its id
ComponentSet_insert(world, component_set) ==
    WorldInsert(world, component_set, 1)

WorldBuilder_entity_with(b, component_set) ==
    WorldBuilder_add_parent_to_current_entity(
        [b EXCEPT !.world = ComponentSet_insert(@, component_set),
                  !.ops = @ + 1,
                  !.current_entity = Len(b.world) + 1])

\* with_children up to the call of build_children (lines 69-70)
WorldBuilder_with_children_enter(b) ==
    [b EXCEPT !.parent_entity = b.current_entity,
              !.current_entity = None]

\* with_children with lines 74 and 75 in the other order
M_WorldBuilder_with_children_leave_swapped(b) ==
    [b EXCEPT !.parent_entity = None,
              !.current_entity = None]

\* with_children without line 75: the scope stays open after the return
M_WorldBuilder_with_children_leave_keeps_parent(b) ==
    [b EXCEPT !.current_entity = b.parent_entity]

\* with_children after build_children has returned (lines 74-75)
WorldBuilder_with_children_leave(b) ==
    [b EXCEPT !.current_entity = b.parent_entity,
              !.parent_entity = None]

\* --------------------------------------------------- CommandBufferBuilder
\* CommandBuffer::build
CommandBufferBuilderSource_build(buf) ==
    [command_buffer |-> buf, current_entity |-> None, parent_entity |-> None,
     parent_entities |-> <<>>, status |-> OK]

\* the policy recording LocalTransform before Parent
M_CommandBufferBuilder_add_parent_transform_first(b) ==
    IF b.current_entity = None
    THEN [b EXCEPT !.status = PanicNoCurrentEntity]
    ELSE IF b.parent_entity # None
    THEN [b EXCEPT
            !.command_buffer = CmdAddComponent(
                        CmdAddComponent(@, b.current_entity,
                                        LocalTransformIdentity),
                        b.current_entity, Parent(b.parent_entity))]
    ELSE b

\* the policy linking to the outermost open scope instead of the innermost
M_CommandBufferBuilder_add_parent_outermost(b) ==
    IF b.current_entity = None
    THEN [b EXCEPT !.status = PanicNoCurrentEntity]
    ELSE IF b.parent_entity # None
    THEN [b EXCEPT
            !.command_buffer = CmdAddComponent(
                        CmdAddComponent(@, b.current_entity,
                                        Parent(b.parent_entities[1])),
                        b.current_entity, LocalTransformIdentity)]
    ELSE b

CommandBufferBuilder_add_parent_to_current_entity(b) ==
    IF b.current_entity = None
    THEN [b EXCEPT !.status = PanicNoCurrentEntity]
    ELSE IF b.parent_entity # None
    THEN [b EXCEPT
            !.command_buffer = CmdAddComponent(
                        CmdAddComponent(@, b.current_entity,
                                        Parent(b.parent_entity)),
                        b.current_entity, LocalTransformIdentity)]
    ELSE b

CommandBufferBuilder_entity(b) ==
    CommandBufferBuilder_add_parent_to_current_entity(
        [b EXCEPT !.command_buffer = CmdInsert(@, {}, 1),
                  !.current_entity = 0 - (b.command_buffer.allocated + 1)])

\* set_entity() that applies the parent-link policy as entity() does
M_CommandBufferBuilder_set_entity_linked(b, entity) ==
    CommandBufferBuilder_add_parent_to_current_entity(
        [b EXCEPT !.current_entity = entity])

CommandBufferBuilder_set_entity(b, entity) ==
    [b EXCEPT !.current_entity = entity]

CommandBufferBuilder_with(b, component) ==
    IF b.current_entity = None
    THEN [b EXCEPT !.status = PanicNoCurrentEntity]
    ELSE [b EXCEPT !.command_buffer =
                       CmdAddComponent(@, b.current_entity, component)]

CommandBufferBuilder_entities(b, components, n) ==
    [b EXCEPT !.command_buffer = CmdInsert(@, components, n)]

\* ComponentSet::insert_command_buffer
ComponentSet_insert_command_buffer(buf, component_set) ==
    CmdInsert(buf, component_set, 1)

CommandBufferBuilder_entity_with(b, component_set) ==
    CommandBufferBuilder_add_parent_to_current_entity(
        [b EXCEPT !.command_buffer =
                      ComponentSet_insert_command_buffer(@, component_set),
                  !.current_entity = 0 - (b.command_buffer.allocated + 1)])

\* with_children without line 157: the slot is not set on entry
M_CommandBufferBuilder_with_children_enter_no_slot(b) ==
    IF b.current_entity = None
    THEN [b EXCEPT !.status = PanicChildrenWithoutParent]
    ELSE [b EXCEPT !.parent_entities = Append(@, b.current_entity),
                   !.current_entity = None]

\* with_children keeping only the newest scope, as WorldBuilder's slot does
M_CommandBufferBuilder_with_children_enter_single(b) ==
    IF b.current_entity = None
    THEN [b EXCEPT !.status = PanicChildrenWithoutParent]
    ELSE [b EXCEPT !.parent_entities = <<b.current_entity>>,
                   !.parent_entity = b.current_entity,
                   !.current_entity = None]

\* with_children with line 157 moved in front of the expect of line 155
M_CommandBufferBuilder_with_children_enter_late_check(b) ==
    IF b.current_entity = None
    THEN [b EXCEPT !.parent_entity = b.current_entity,
                   !.status = PanicChildrenWithoutParent]
    ELSE [b EXCEPT !.parent_entities = Append(@, b.current_entity),
                   !.parent_entity = b.current_entity,
                   !.current_entity = None]

\* with_children without the expect(...) of line 155
M_CommandBufferBuilder_with_children_enter_unchecked(b) ==
    [b EXCEPT !.parent_entities =
                  IF b.current_entity = None THEN @
                  ELSE Append(@, b.current_entity),
              !.parent_entity = b.current_entity,
              !.current_entity = None]

\* with_children up to the call of build_children (lines 155-158)
CommandBufferBuilder_with_children_enter(b) ==
    IF b.current_entity = None
    THEN [b EXCEPT !.status = PanicChildrenWithoutParent]
    ELSE [b EXCEPT !.parent_entities = Append(@, b.current_entity),
                   !.parent_entity = b.current_entity,
                   !.current_entity = None]

\* Vec::pop: the removed last element (None on an empty vector)
VecPop(v) == IF Len(v) = 0 THEN None ELSE v[Len(v)]
VecPopped(v) == IF Len(v) = 0 THEN v ELSE SubSeq(v, 1, Len(v) - 1)

\* line 163 written as in WorldBuilder::with_children (line 75)
M_CommandBufferBuilder_restored_parent_none(parent_entities) ==
    None

\* line 163: the parent after the scope's entry has been popped
CommandBufferBuilder_restored_parent(parent_entities) ==
    IF Len(parent_entities) = 0
    THEN None
    ELSE parent_entities[Len(parent_entities)]

\* lines 162-163 followed by the parent-link policy on the restored entity
M_CommandBufferBuilder_with_children_leave_relinks(b) ==
    CommandBufferBuilder_add_parent_to_current_entity(
        [b EXCEPT !.current_entity = VecPop(b.parent_entities),
                  !.parent_entities = VecPopped(@),
                  !.parent_entity =
                      CommandBufferBuilder_restored_parent(
                          VecPopped(b.parent_entities))])

\* lines 162-163 taking the entity back from parent_entity, without a pop
M_CommandBufferBuilder_with_children_leave_slot(b) ==
    [b EXCEPT !.current_entity = b.parent_entity,
              !.parent_entity =
                  CommandBufferBuilder_restored_parent(
                      VecPopped(b.parent_entities))]

\* with_children after build_children has returned (lines 162-163)
CommandBufferBuilder_with_children_leave(b) ==
    [b EXCEPT !.current_entity = VecPop(b.parent_entities),
              !.parent_entities = VecPopped(@),
              !.parent_entity =
                  CommandBufferBuilder_restored_parent(
                      VecPopped(b.parent_entities))]

\* ---------------------------------------------------------------- caller
\* the world before the chain: NumPre entities without components
FreshWorld == [i \in 1..NumPre |-> {}]
EmptyCommandBuffer == [log |-> <<>>, allocated |-> 0]

Running(b) == b.status = OK

\* a call reaches a builder only while that builder has not panicked
OnW(new) == IF Running(wb) THEN new ELSE wb
OnC(new) == IF Running(cb) THEN new ELSE cb

\* what a builder did with the call that led from before to after
Outcome(before, after) ==
    IF ~Running(before) THEN "not reached" ELSE after.status

\* the scope root of whatever is created now, for either builder
WRootNow == IF Len(frames) = 0 THEN None ELSE frames[Len(frames)].wE
CRootNow == IF Len(frames) = 0 THEN None ELSE frames[Len(frames)].cE

NoFrame == [wE |-> None, wQ |-> None, wIn |-> FALSE,
            cE |-> None, cQ |-> None, cS |-> <<>>, cIn |-> FALSE,
            nested |-> FALSE]

MayCall == calls < MaxCalls /\ (Running(wb) \/ Running(cb))

Called(op, w2, c2) ==
    /\ wb' = w2
    /\ cb' = c2
    /\ calls' = calls + 1
    /\ trace' = Append(trace, op)
    /\ last' = [op |-> op, w |-> Outcome(wb, w2), c |-> Outcome(cb, c2),
                w_pre |-> wb, c_pre |-> cb, frame |-> NoFrame]

Created(w2, c2) ==
    /\ w_root' = IF Running(wb) /\ Running(w2)
                 THEN w_root \cup {<<w2.current_entity, WRootNow, Len(frames)>>}
                 ELSE w_root
    /\ c_root' = IF Running(cb) /\ Running(c2)
                 THEN c_root \cup {<<c2.current_entity, CRootNow, Len(frames)>>}
                 ELSE c_root

Init ==
    /\ wb = WorldBuilderSource_build(FreshWorld)
    /\ cb = CommandBufferBuilderSource_build(EmptyCommandBuffer)
    /\ frames = <<>>
    /\ calls = 0
    /\ last = [op |-> "build", w |-> OK, c |-> OK,
               w_pre |-> wb, c_pre |-> cb, frame |-> NoFrame]
    /\ trace = <<>>
    /\ args = <<>>
    /\ w_bulk = {}
    /\ c_bulk = {}
    /\ w_root = {}
    /\ c_root = {}

Entity ==
    /\ MayCall
    /\ LET w2 == OnW(WorldBuilder_entity(wb))
           c2 == OnC(CommandBufferBuilder_entity(cb))
       IN  Called("entity", w2, c2) /\ Created(w2, c2)
    /\ args' = Append(args, None)
    /\ UNCHANGED <<frames, w_bulk, c_bulk>>

EntityWith ==
    /\ MayCall
    /\ \E set \in Bundles :
         LET w2 == OnW(WorldBuilder_entity_with(wb, set))
             c2 == OnC(CommandBufferBuilder_entity_with(cb, set))
         IN  /\ Called("entity_with", w2, c2) /\ Created(w2, c2)
             /\ args' = Append(args, set)
    /\ UNCHANGED <<frames, w_bulk, c_bulk>>

\* j for the entities that entity() / entity_with() have created so far, in
\* a builder that still runs: the j-th entity of the chain is NumPre + j in
\* the world and -j in the command buffer
CreatedSoFar ==
    IF Running(cb) THEN {0 - r[1] : r \in c_root}
    ELSE {r[1] - NumPre : r \in w_root}

\* what the caller passes to set_entity: an entity that existed before the
\* chain, or one that entity() / entity_with() created earlier in the chain
SetEntityTargets ==
    {[w |-> e, c |-> e] : e \in 1..NumPre}
        \cup {[w |-> NumPre + j, c |-> 0 - j] : j \in CreatedSoFar}

SetEntity ==
    /\ MayCall
    /\ \E t \in SetEntityTargets :
         /\ Called("set_entity", OnW(WorldBuilder_set_entity(wb, t.w)),
                                 OnC(CommandBufferBuilder_set_entity(cb, t.c)))
         /\ args' = Append(args, t)
    /\ UNCHANGED <<frames, w_bulk, c_bulk, w_root, c_root>>

With ==
    /\ MayCall
    /\ \E comp \in UserComponents :
         /\ Called("with", OnW(WorldBuilder_with(wb, comp)),
                           OnC(CommandBufferBuilder_with(cb, comp)))
         /\ args' = Append(args, comp)
    /\ UNCHANGED <<frames, w_bulk, c_bulk, w_root, c_root>>

Entities ==
    /\ MayCall
    /\ \E n \in 1..MaxBatch :
         /\ Called("entities",
                   OnW(WorldBuilder_entities(wb, BatchComponents, n)),
                   OnC(CommandBufferBuilder_entities(cb, BatchComponents, n)))
         /\ args' = Append(args, n)
         /\ w_bulk' = IF Running(wb)
                      THEN w_bulk \cup (Len(wb.world) + 1 .. Len(wb.world) + n)
                      ELSE w_bulk
         /\ c_bulk' = IF Running(cb)
                      THEN c_bulk \cup
                           {0 - (cb.command_buffer.allocated + i) : i \in 1..n}
                      ELSE c_bulk
    /\ UNCHANGED <<frames, w_root, c_root>>

\* with_children is called: each builder runs up to build_children(self)
WithChildren ==
    /\ MayCall
    /\ Len(frames) < MaxDepth
    /\ LET w2 == OnW(WorldBuilder_with_children_enter(wb))
           c2 == OnC(CommandBufferBuilder_with_children_enter(cb))
       IN  /\ Called("with_children", w2, c2)
           /\ args' = Append(args, None)
           /\ frames' = Append(frames,
                  [wE |-> wb.current_entity, wQ |-> wb.parent_entity,
                   wIn |-> Running(wb) /\ Running(w2),
                   cE |-> cb.current_entity, cQ |-> cb.parent_entity,
                   cS |-> cb.parent_entities,
                   cIn |-> Running(cb) /\ Running(c2),
                   nested |-> FALSE])
    /\ UNCHANGED <<w_bulk, c_bulk, w_root, c_root>>

\* the closure returns: each builder that is still running finishes its
\* with_children
WithChildrenReturn ==
    /\ Len(frames) > 0
    /\ Running(wb) \/ Running(cb)
    /\ LET f == frames[Len(frames)]
           w2 == OnW(WorldBuilder_with_children_leave(wb))
           c2 == OnC(CommandBufferBuilder_with_children_leave(cb))
           rest == SubSeq(frames, 1, Len(frames) - 1)
       IN  /\ wb' = w2
           /\ cb' = c2
           /\ frames' = IF Len(rest) = 0 THEN rest
                        ELSE [rest EXCEPT ![Len(rest)].nested = TRUE]
           /\ last' = [op |-> "with_children returned",
                       w |-> Outcome(wb, w2), c |-> Outcome(cb, c2),
                       w_pre |-> wb, c_pre |-> cb, frame |-> f]
           /\ trace' = Append(trace, "return")
           /\ args' = Append(args, None)
    /\ UNCHANGED <<calls, w_bulk, c_bulk, w_root, c_root>>

Next ==
    \/ Entity
    \/ EntityWith
    \/ SetEntity
    \/ With
    \/ Entities
    \/ WithChildren
    \/ WithChildrenReturn

Spec == Init /\ [][Next]_vars

\* ------------------------------------------------- applying a command buffer
\* the world entity a recorded id stands for once the buffer is applied
Resolve(e, bind) ==
    IF e < 0 /\ (0 - e) \in 1..Len(bind) THEN bind[0 - e] ELSE e

ResolveComponent(comp, bind) ==
    IF comp[1] = "Parent" THEN Parent(Resolve(comp[2], bind)) ELSE comp

\* CommandBuffer::write: the records are performed on world in log order;
\* bind[n] is the world entity that the recorded entity -n became
RECURSIVE Replay(_, _, _, _)
Replay(log, i, world, bind) ==
    IF i > Len(log)
    THEN world
    ELSE LET r == log[i]
         IN  IF r.op = "insert"
             THEN Replay(log, i + 1,
                         WorldInsert(world, r.comps, Len(r.ids)),
                         bind \o [k \in 1..Len(r.ids) |-> Len(world) + k])
             ELSE Replay(log, i + 1,
                         WorldAddComponent(world, Resolve(r.e, bind),
                                           ResolveComponent(r.comp, bind)),
                         bind)

ApplyLog(buf, world) == Replay(buf.log, 1, world, <<>>)

\* ------------------------------------------------------------------ claims
Recorded(e, comp) ==
    \E i \in 1..Len(cb.command_buffer.log) :
        LET r == cb.command_buffer.log[i]
        IN  r.op = "add" /\ r.e = e /\ r.comp = comp

RecordedType(e, type) ==
    \E i \in 1..Len(cb.command_buffer.log) :
        LET r == cb.command_buffer.log[i]
        IN  r.op = "add" /\ r.e = e /\ r.comp[1] = type

Carries(e, comp) == e \in 1..Len(wb.world) /\ comp \in wb.world[e]

CarriesType(e, type) ==
    e \in 1..Len(wb.world) /\ \E c \in wb.world[e] : c[1] = type

InScope == Len(frames) > 0
Top == frames[Len(frames)]
Creating == last.op \in {"entity", "entity_with"}
Returned == last.op = "with_children returned"

\* C1: deferred builder, parent linkage.  Every entity that entity() or
\* entity_with() created inside a with_children scope rooted at P has an
\* add-component Parent(P) and an add-component LocalTransform::identity()
\* in the command buffer, also when a nested with_children of that scope has
\* already returned.
C1_DeferredParentLinkage ==
    \A r \in c_root :
        r[2] # None =>
            /\ Recorded(r[1], Parent(r[2]))
            /\ Recorded(r[1], LocalTransformIdentity)

\* an entity was just created in a scope in which a nested with_children
\* has already returned
C1_Witness ==
    /\ Creating /\ last.c = OK
    /\ InScope /\ Top.nested /\ Top.cIn
    /\ <<cb.current_entity, Top.cE, Len(frames)>> \in c_root

\* C2: immediate builder, parent linkage.  Every entity that entity() or
\* entity_with() created inside a with_children scope rooted at P carries
\* Parent(P) and LocalTransform::identity() in the world, also when a nested
\* with_children of that scope has already returned.
C2_ImmediateParentLinkage ==
    \A r \in w_root :
        r[2] # None =>
            /\ Carries(r[1], Parent(r[2]))
            /\ Carries(r[1], LocalTransformIdentity)

\* C3: deferred builder, scope restoration.  When a with_children that was
\* called with current entity E, parent stack S and active parent Q returns,
\* current_entity = E, parent_entities = S and parent_entity = Q.
C3_DeferredScopeRestoration ==
    (Returned /\ last.c = OK) =>
        /\ cb.current_entity = last.frame.cE
        /\ cb.parent_entities = last.frame.cS
        /\ cb.parent_entity = last.frame.cQ

\* a with_children whose closure held a further with_children, which has
\* itself returned to a non-empty parent stack, has returned
C3_Witness ==
    /\ Returned /\ last.c = OK
    /\ last.frame.cIn /\ last.frame.nested
    /\ cb.current_entity = last.frame.cE
    /\ cb.current_entity # None

\* C4: immediate builder, scope restoration.  When a with_children that was
\* called with current entity E and active parent scope Q returns,
\* current_entity = E and parent_entity = Q.
C4_ImmediateScopeRestoration ==
    (Returned /\ last.w = OK /\ last.frame.wE # None) =>
        /\ wb.current_entity = last.frame.wE
        /\ wb.parent_entity = last.frame.wQ

\* C5: immediate vs. deferred equivalence.  Every call has the same outcome
\* (success or failure) on both builders, and the world the WorldBuilder
\* built equals the fresh world after the recorded log has been applied to
\* it, recorded entities renamed to the world entities they became.
C5_ImmediateDeferredEquivalence ==
    /\ Running(wb) <=> Running(cb)
    /\ (Running(wb) /\ Running(cb)) =>
           ApplyLog(cb.command_buffer, FreshWorld) = wb.world

\* entity().with_children(|b| b.entity().with_children(|b| b.entity()))
ThreeLevelChain ==
    <<"entity", "with_children", "entity", "with_children", "entity">>

ThreeLevelBuilt ==
    trace \in {ThreeLevelChain,
               ThreeLevelChain \o <<"return">>,
               ThreeLevelChain \o <<"return", "return">>}

\* C6: three-level nesting.  After entity().with_children(|b| b.entity()
\* .with_children(|b| b.entity())), in both builders the grandchild has
\* Parent(child), the child has Parent(root), the root has no Parent, and
\* child and grandchild have LocalTransform::identity().
C6_ThreeLevelNesting ==
    ThreeLevelBuilt =>
        LET root == NumPre + 1
            child == NumPre + 2
            grandchild == NumPre + 3
        IN  /\ Carries(grandchild, Parent(child))
            /\ Carries(child, Parent(root))
            /\ ~CarriesType(root, "Parent")
            /\ Carries(child, LocalTransformIdentity)
            /\ Carries(grandchild, LocalTransformIdentity)
            /\ Recorded(-3, Parent(-2))
            /\ Recorded(-2, Parent(-1))
            /\ ~RecordedType(-1, "Parent")
            /\ Recorded(-2, LocalTransformIdentity)
            /\ Recorded(-3, LocalTransformIdentity)
            /\ \A e \in {-2, -3} : \A p \in {-1, -2, -3} :
                   Recorded(e, Parent(p)) => p = e + 1

\* the chain has run to its end on both builders
C6_Witness ==
    /\ trace = ThreeLevelChain \o <<"return", "return">>
    /\ Running(wb) /\ Running(cb)
    /\ Len(wb.world) = NumPre + 3
    /\ cb.command_buffer.allocated = 3

\* C7: in both builders, with(component) called while current_entity is
\* unset panics, and issues no add-component to the store.
C7_WithNeedsCurrentEntity ==
    last.op = "with" =>
        /\ (last.w # "not reached" /\ last.w_pre.current_entity = None) =>
               /\ wb.status = PanicNoCurrentEntity
               /\ wb.world = last.w_pre.world
               /\ wb.ops = last.w_pre.ops
        /\ (last.c # "not reached" /\ last.c_pre.current_entity = None) =>
               /\ cb.status = PanicNoCurrentEntity
               /\ cb.command_buffer = last.c_pre.command_buffer

\* with() was the first call inside a with_children closure, on both
\* builders
C7_Witness ==
    /\ last.op = "with"
    /\ Len(trace) > 1 /\ trace[Len(trace) - 1] = "with_children"
    /\ InScope /\ Top.wIn /\ Top.cIn
    /\ last.w_pre.current_entity = None /\ last.c_pre.current_entity = None
    /\ wb.status = PanicNoCurrentEntity /\ cb.status = PanicNoCurrentEntity

\* C8: deferred builder.  with_children called while current_entity is
\* unset fails with "cannot add children without a parent" before the
\* closure is entered and before parent_entities, parent_entity or
\* current_entity are modified.
C8_DeferredChildrenNeedParent ==
    (/\ last.op = "with_children"
     /\ last.c # "not reached"
     /\ last.c_pre.current_entity = None) =>
        /\ cb.status = PanicChildrenWithoutParent
        /\ ~Top.cIn
        /\ cb.parent_entities = last.c_pre.parent_entities
        /\ cb.parent_entity = last.c_pre.parent_entity
        /\ cb.current_entity = last.c_pre.current_entity
        /\ cb.command_buffer = last.c_pre.command_buffer

\* with_children was called as the first call inside a closure, where
\* current_entity has just been cleared
C8_Witness ==
    /\ last.op = "with_children"
    /\ last.c = PanicChildrenWithoutParent
    /\ Len(last.c_pre.parent_entities) > 0
    /\ last.c_pre.current_entity = None

\* C9: immediate builder.  with_children called while current_entity is
\* unset fails with the "children without parent" error, so that the
\* closure is not run and creates no entity.
C9_ImmediateChildrenNeedParent ==
    /\ (/\ last.op = "with_children"
        /\ last.w # "not reached"
        /\ last.w_pre.current_entity = None) =>
           /\ wb.status = PanicChildrenWithoutParent
           /\ ~Top.wIn
    /\ ~(Creating /\ last.w = OK /\ InScope /\ Top.wIn /\ Top.wE = None)

\* C10: in both builders, entities(...) attaches no Parent and no
\* LocalTransform to an entity it inserts, whatever scope is active, and
\* leaves current_entity and the parent scope as they were.
C10_EntitiesNoLinkage ==
    /\ \A e \in w_bulk :
           ~CarriesType(e, "Parent") /\ ~CarriesType(e, "LocalTransform")
    /\ \A e \in c_bulk :
           ~RecordedType(e, "Parent") /\ ~RecordedType(e, "LocalTransform")
    /\ (last.op = "entities" /\ last.w # "not reached") =>
           /\ wb.status = OK
           /\ wb.current_entity = last.w_pre.current_entity
           /\ wb.parent_entity = last.w_pre.parent_entity
    /\ (last.op = "entities" /\ last.c # "not reached") =>
           /\ cb.status = OK
           /\ cb.current_entity = last.c_pre.current_entity
           /\ cb.parent_entity = last.c_pre.parent_entity
           /\ cb.parent_entities = last.c_pre.parent_entities

\* entities(...) was called inside an open scope, with a current entity,
\* on both builders
C10_Witness ==
    /\ last.op = "entities"
    /\ last.w = OK /\ last.c = OK
    /\ wb.parent_entity # None /\ cb.parent_entity # None
    /\ wb.current_entity # None /\ cb.current_entity # None
    /\ w_bulk # {} /\ c_bulk # {}

\* entity().with(A).with_children(|b| b.entity().with(B))
ScenarioChain == <<"entity", "with", "with_children", "entity", "with">>

ScenarioBuilt ==
    /\ trace \in {ScenarioChain, ScenarioChain \o <<"return">>}
    /\ args[2] = CompA
    /\ args[5] = CompB

\* C11: in both builders, an entity created by entity() or entity_with()
\* while no with_children scope is open never has a Parent or a
\* LocalTransform from the builder, also after earlier with_children calls
\* have returned.  After entity().with(A).with_children(|b| b.entity()
\* .with(B)) the first entity has A and no Parent, the second has B,
\* Parent(first) and LocalTransform::identity().
C11_TopLevelUnlinked ==
    /\ \A r \in w_root :
           r[3] = 0 => /\ ~CarriesType(r[1], "Parent")
                       /\ ~CarriesType(r[1], "LocalTransform")
    /\ \A r \in c_root :
           r[3] = 0 => /\ ~RecordedType(r[1], "Parent")
                       /\ ~RecordedType(r[1], "LocalTransform")
    /\ ScenarioBuilt =>
           LET first == NumPre + 1
               second == NumPre + 2
           IN  /\ Running(wb) /\ Running(cb)
               /\ Carries(first, CompA)
               /\ ~CarriesType(first, "Parent")
               /\ wb.world[second] =
                      {CompB, Parent(first), LocalTransformIdentity}
               /\ Recorded(-1, CompA)
               /\ ~RecordedType(-1, "Parent")
               /\ Recorded(-2, CompB)
               /\ Recorded(-2, Parent(-1))
               /\ Recorded(-2, LocalTransformIdentity)

\* an entity was just created outside every scope, after a with_children
\* that had created a linked child has returned, on both builders
C11_Witness ==
    /\ Creating /\ last.w = OK /\ last.c = OK
    /\ Len(frames) = 0
    /\ \E i \in 1..Len(trace) : trace[i] = "return"
    /\ \E r \in w_root : r[3] = 1 /\ r[2] # None
    /\ <<wb.current_entity, None, 0>> \in w_root
    /\ <<cb.current_entity, None, 0>> \in c_root

\* the scenario of C11 has run to its end
C11_ScenarioReached == ScenarioBuilt /\ Len(trace) = 6

\* the argument of the call that produced this state
LastArg == args[Len(args)]

\* C12: in both builders, set_entity(id) sets current_entity to id and does
\* nothing else: it inserts no entity, issues no add-component even when a
\* parent scope is active, and leaves the parent scope unchanged.
C12_SetEntityOnlySetsCurrent ==
    last.op = "set_entity" =>
        /\ last.w # "not reached" =>
               /\ wb.status = OK
               /\ wb.current_entity = LastArg.w
               /\ wb.world = last.w_pre.world
               /\ wb.ops = last.w_pre.ops
               /\ wb.parent_entity = last.w_pre.parent_entity
        /\ last.c # "not reached" =>
               /\ cb.status = OK
               /\ cb.current_entity = LastArg.c
               /\ cb.command_buffer = last.c_pre.command_buffer
               /\ cb.parent_entity = last.c_pre.parent_entity
               /\ cb.parent_entities = last.c_pre.parent_entities

\* set_entity was called inside an open scope, replacing another current
\* entity, on both builders
C12_Witness ==
    /\ last.op = "set_entity"
    /\ last.w = OK /\ last.c = OK
    /\ wb.parent_entity # None /\ cb.parent_entity # None
    /\ last.w_pre.current_entity \notin {None, LastArg.w}
    /\ last.c_pre.current_entity \notin {None, LastArg.c}
    /\ wb.current_entity = LastArg.w /\ cb.current_entity = LastArg.c

\* the records the last call appended to the command buffer
CLog == cb.command_buffer.log
CLogBefore == last.c_pre.command_buffer.log
Appended == SubSeq(CLog, Len(CLogBefore) + 1, Len(CLog))

InsertRecord(ids, comps) == [op |-> "insert", ids |-> ids, comps |-> comps]
AddRecord(e, comp) == [op |-> "add", e |-> e, comp |-> comp]

\* the records of a call that creates entity e with components comps while
\* the parent stack is stack
CreationRecords(e, comps, stack) ==
    IF Len(stack) = 0
    THEN <<InsertRecord(<<e>>, comps)>>
    ELSE <<InsertRecord(<<e>>, comps),
           AddRecord(e, Parent(stack[Len(stack)])),
           AddRecord(e, LocalTransformIdentity)>>

\* C13: deferred builder.  The command buffer holds the records in the
\* order of the caller's calls, closures included: every call leaves the
\* records before it as they are and appends its own after them; an entity
\* created in an active scope gets its insert record, then Parent, then
\* LocalTransform, before the record of any later call.
C13_DeferredLogOrder ==
    last.c \notin {"not reached"} =>
        /\ Len(CLogBefore) <= Len(CLog)
        /\ SubSeq(CLog, 1, Len(CLogBefore)) = CLogBefore
        /\ (last.op = "entity" /\ last.c = OK) =>
               Appended = CreationRecords(cb.current_entity, {},
                                          cb.parent_entities)
        /\ (last.op = "entity_with" /\ last.c = OK) =>
               Appended = CreationRecords(cb.current_entity, LastArg,
                                          cb.parent_entities)
        /\ (last.op = "with" /\ last.c = OK) =>
               Appended = <<AddRecord(last.c_pre.current_entity, LastArg)>>
        /\ (last.op = "entities" /\ last.c = OK) =>
               /\ Len(Appended) = 1
               /\ Appended[1].op = "insert"
               /\ Len(Appended[1].ids) = LastArg
               /\ Appended[1].comps = BatchComponents
        /\ (\/ last.op \in {"build", "set_entity", "with_children",
                            "with_children returned"}
            \/ last.c # OK) =>
               Appended = <<>>

\* with(c) was called on an entity that entity() had just created inside a
\* scope: the log ends with insert, Parent, LocalTransform, c
C13_Witness ==
    /\ last.op = "with" /\ last.c = OK
    /\ Len(trace) > 1 /\ trace[Len(trace) - 1] = "entity"
    /\ Len(cb.parent_entities) > 0
    /\ Len(CLog) >= 4
    /\ CLog[Len(CLog) - 3].op = "insert"
    /\ CLog[Len(CLog) - 2].comp[1] = "Parent"
    /\ CLog[Len(CLog) - 1].comp[1] = "LocalTransform"
    /\ CLog[Len(CLog)] = AddRecord(cb.current_entity, LastArg)

Panics == {PanicNoCurrentEntity, PanicChildrenWithoutParent}

\* the closures the caller was inside of when the last call was made
Enclosing ==
    IF last.op = "with_children"
    THEN SubSeq(frames, 1, Len(frames) - 1)
    ELSE frames

\* the failing call left the WorldBuilder as it found it
WUntouchedByFailure ==
    /\ wb.current_entity = last.w_pre.current_entity
    /\ wb.parent_entity = last.w_pre.parent_entity
    /\ wb.world = last.w_pre.world
    /\ wb.ops = last.w_pre.ops

\* the failing call left the CommandBufferBuilder as it found it
CUntouchedByFailure ==
    /\ cb.current_entity = last.c_pre.current_entity
    /\ cb.parent_entity = last.c_pre.parent_entity
    /\ cb.parent_entities = last.c_pre.parent_entities
    /\ cb.command_buffer = last.c_pre.command_buffer

\* C14 as claimed: when a with or with_children call fails, current_entity
\* and the parent scope have the values they had immediately before the
\* failing call and the failing call has issued no store operation; and the
\* same holds for every enclosing with_children call, which fails with it:
\* current_entity and the parent scope are as they were immediately before
\* that with_children was called.
C14_FailureLeavesScopesAsBeforeTheCalls ==
    /\ last.w \in Panics =>
           /\ WUntouchedByFailure
           /\ \A i \in 1..Len(Enclosing) :
                  /\ wb.current_entity = Enclosing[i].wE
                  /\ wb.parent_entity = Enclosing[i].wQ
    /\ last.c \in Panics =>
           /\ CUntouchedByFailure
           /\ \A i \in 1..Len(Enclosing) :
                  /\ cb.current_entity = Enclosing[i].cE
                  /\ cb.parent_entity = Enclosing[i].cQ
                  /\ cb.parent_entities = Enclosing[i].cS

\* C14, amended: when a with or with_children call fails, current_entity
\* and the parent scope have the values they had immediately before the
\* failing call and the failing call has issued no store operation.  The
\* enclosing with_children calls restore nothing: in the deferred builder
\* every one of them still has its entry in parent_entities, in call order.
C14_FailureLeavesStateOfFailingCall ==
    /\ last.w \in Panics =>
           /\ last.op \in {"with", "with_children"}
           /\ WUntouchedByFailure
    /\ last.c \in Panics =>
           /\ last.op \in {"with", "with_children"}
           /\ CUntouchedByFailure
           /\ Len(cb.parent_entities) = Len(Enclosing)
           /\ \A i \in 1..Len(Enclosing) :
                  /\ Enclosing[i].cIn
                  /\ cb.parent_entities[i] = Enclosing[i].cE

\* with_children failed inside the closures of two nested with_children
\* calls of the deferred builder
C14_Witness ==
    /\ last.op = "with_children"
    /\ last.c = PanicChildrenWithoutParent
    /\ Len(Enclosing) = 2
    /\ cb.parent_entities = <<Enclosing[1].cE, Enclosing[2].cE>>
    /\ cb.current_entity = None

\* how many add-component records of a component type the log has for e
CountRecorded(e, type) ==
    Cardinality({i \in 1..Len(CLog) :
                    /\ CLog[i].op = "add"
                    /\ CLog[i].e = e
                    /\ CLog[i].comp[1] = type})

\* C15: deferred builder.  For every entity that entity() or entity_with()
\* created while parent_entities was non-empty, the command buffer has
\* exactly one Parent and exactly one LocalTransform add-component, both
\* recorded by the creating call; no later call records a second one.
C15_DeferredLinkedExactlyOnce ==
    /\ \A r \in c_root :
           r[3] > 0 => /\ CountRecorded(r[1], "Parent") = 1
                       /\ CountRecorded(r[1], "LocalTransform") = 1
    /\ (Creating /\ last.c = OK /\ Len(cb.parent_entities) > 0) =>
           /\ <<cb.current_entity, CRootNow, Len(frames)>> \in c_root
           /\ Len(frames) > 0
           /\ \E i, j \in 1..Len(Appended) :
                  /\ Appended[i] = AddRecord(cb.current_entity,
                                             Parent(CRootNow))
                  /\ Appended[j] = AddRecord(cb.current_entity,
                                             LocalTransformIdentity)

\* an entity created inside a scope was made current again by set_entity
\* and then got a component by with()
C15_Witness ==
    /\ last.op = "with" /\ last.c = OK
    /\ Len(trace) > 1 /\ trace[Len(trace) - 1] = "set_entity"
    /\ \E r \in c_root : r[3] > 0 /\ r[1] = cb.current_entity
    /\ CountRecorded(cb.current_entity, "Parent") = 1
    /\ Len(cb.parent_entities) > 0

\* C16: deferred builder, push/pop discipline.  Entering with_children with
\* current entity E appends exactly the entry E to parent_entities and
\* clears current_entity; leaving removes exactly that entry.  At every
\* point parent_entities has one entry per with_children closure that is
\* executing, the entity that with_children was called on, outermost first,
\* so that an inner push or pop never changes the entries below the top.
C16_DeferredPushPop ==
    Running(cb) =>
        /\ Len(cb.parent_entities) = Len(frames)
        /\ \A i \in 1..Len(frames) :
               /\ frames[i].cIn
               /\ frames[i].cE # None
               /\ cb.parent_entities[i] = frames[i].cE
        /\ last.op = "with_children" =>
               /\ cb.parent_entities =
                      Append(last.c_pre.parent_entities,
                             last.c_pre.current_entity)
               /\ cb.current_entity = None
        /\ Returned =>
               /\ last.c_pre.parent_entities =
                      Append(cb.parent_entities, last.frame.cE)

\* an inner with_children has returned inside the closure of an outer one,
\* whose entry, another entity, is still there
C16_Witness ==
    /\ Running(cb) /\ Returned
    /\ Len(last.c_pre.parent_entities) = 2
    /\ cb.parent_entities = <<frames[1].cE>>
    /\ last.frame.cE # frames[1].cE

\* C17: in both builders only with_children changes the parent scope:
\* entity, entity_with, set_entity, with and entities leave parent_entity
\* (and parent_entities) unchanged; entity, entity_with and set_entity end
\* with a current entity; a freshly built builder has no current entity and
\* no parent scope.
C17_OnlyWithChildrenChangesScope ==
    /\ last.op \in {"entity", "entity_with", "set_entity", "with",
                    "entities"} =>
           /\ last.w # "not reached" =>
                  wb.parent_entity = last.w_pre.parent_entity
           /\ last.c # "not reached" =>
                  /\ cb.parent_entity = last.c_pre.parent_entity
                  /\ cb.parent_entities = last.c_pre.parent_entities
    /\ last.op \in {"entity", "entity_with", "set_entity"} =>
           /\ last.w # "not reached" =>
                  wb.status = OK /\ wb.current_entity # None
           /\ last.c # "not reached" =>
                  cb.status = OK /\ cb.current_entity # None
    /\ last.op = "build" =>
           /\ wb.status = OK
           /\ wb.current_entity = None
           /\ wb.parent_entity = None
           /\ cb.status = OK
           /\ cb.current_entity = None
           /\ cb.parent_entity = None
           /\ cb.parent_entities = <<>>

\* entity_with was the first call inside a closure: both builders went from
\* no current entity to a current entity, inside the same scope
C17_Witness ==
    /\ last.op = "entity_with"
    /\ last.w = OK /\ last.c = OK
    /\ last.w_pre.current_entity = None /\ last.c_pre.current_entity = None
    /\ wb.current_entity # None /\ cb.current_entity # None
    /\ wb.parent_entity # None
    /\ Len(cb.parent_entities) > 0

\* C18: deferred builder.  Whenever control is with the caller,
\* parent_entity is None if parent_entities is empty and is the last
\* element of parent_entities otherwise.
C18_DeferredSlotIsStackTop ==
    cb.parent_entity =
        IF Len(cb.parent_entities) = 0
        THEN None
        ELSE cb.parent_entities[Len(cb.parent_entities)]

\* an inner with_children has returned and the slot is back at the entry of
\* the enclosing scope, another entity than the one just popped
C18_Witness ==
    /\ Running(cb) /\ Returned
    /\ Len(cb.parent_entities) = 1
    /\ cb.parent_entity = cb.parent_entities[1]
    /\ last.c_pre.parent_entity = last.frame.cE
    /\ last.frame.cE # cb.parent_entity

\* the largest number of closures the caller has been inside of at once
\* during the calls tr[i..], when it is inside depth closures before them
RECURSIVE DeepestNesting(_, _, _)
DeepestNesting(tr, i, depth) ==
    IF i > Len(tr)
    THEN depth
    ELSE LET d == IF tr[i] = "with_children" THEN depth + 1
                  ELSE IF tr[i] = "return" THEN depth - 1
                  ELSE depth
             rest == DeepestNesting(tr, i + 1, d)
         IN  IF rest > depth THEN rest ELSE depth

SingleLevel == DeepestNesting(trace, 1, 0) <= 1

\* C19: immediate builder, single-level nesting.  In a call sequence without
\* a with_children inside a with_children closure, every entity that
\* entity() or entity_with() created inside the closure of a with_children
\* called with current entity E carries Parent(E) and
\* LocalTransform::identity(), and when that with_children returns
\* current_entity = E and parent_entity = None.
C19_ImmediateSingleLevel ==
    SingleLevel =>
        /\ \A r \in w_root :
               (r[3] = 1 /\ r[2] # None) =>
                   /\ Carries(r[1], Parent(r[2]))
                   /\ Carries(r[1], LocalTransformIdentity)
        /\ (Returned /\ last.w = OK /\ last.frame.wE # None) =>
               /\ wb.current_entity = last.frame.wE
               /\ wb.parent_entity = None

\* a with_children of a single-level chain has returned after its closure
\* created two children
C19_Witness ==
    /\ SingleLevel
    /\ Returned /\ last.w = OK
    /\ last.frame.wE # None
    /\ wb.current_entity = last.frame.wE
    /\ Cardinality({r \in w_root : r[2] = last.frame.wE /\ r[3] = 1}) = 2

====
